---- MODULE Spec2Model ----
(***************************************************************************)
(* The ec2tagger processor (plugins/processors/ec2tagger): a Tagger that   *)
(* resolves the instance identity and fetches the instance tags in Start,  *)
(* refreshes the tags from a background goroutine, and stamps the cached   *)
(* tags and the identity fields on every metric in Apply.                  *)
(*                                                                         *)
(* Threads: the pipeline thread (Start, Apply, Stop, called serially) and  *)
(* the refreshTags goroutine.  A fetch cycle is one call of the closure    *)
(* getEC2TagsFetchFunc returns; it takes one step per DescribeTags call.   *)
(* Apply takes one step for the locked read of the cache and one step per  *)
(* metric of the batch.  The read of t.ec2TagsCache under RLock and the    *)
(* write under Lock exclude each other, so each is one step.  log.Fatalf   *)
(* ends the process: no thread takes a step after it.                      *)
(*                                                                         *)
(* The history variables record what the collaborators answered and what   *)
(* the fetch cycles returned; no action reads them.  The counters nCycles  *)
(* and nQueries count up to MaxCount and stay there, so that counting      *)
(* never holds an action back.                                             *)
(***************************************************************************)
EXTENDS Integers, Sequences, FiniteSets, TLC

(***************************************************************************)
(* Bounds of the model.                                                    *)
(***************************************************************************)
\* the longest listing the tag service paginates a result into
MaxPages == 2
\* the most metrics one Apply call is given
MaxBatch == 2
\* the history counters nCycles and nQueries stop counting here, and
\* JitterSpec stops calling hostJitter
MaxCount == 2
\* the longest list of tag keys a Tagger is configured with in KeysSpec
MaxKeys == 2
\* the largest maximum (and, negated, the smallest) hostJitter is called with
\* in JitterSpec
MaxDuration == 12

(***************************************************************************)
(* Program constants.                                                      *)
(***************************************************************************)
ec2InstanceTagKeyASG == "aws:autoscaling:groupName"
cwDimensionASG == "AutoScalingGroupName"
mdKeyInstanceId == "InstanceId"
mdKeyImageId == "ImageId"
mdKeyInstaneType == "InstanceType"
\* in seconds
defaultRefreshInterval == 180

(***************************************************************************)
(* map[string]string: a function from a finite set of keys.  A nil map is  *)
(* told from an empty one.                                                 *)
(***************************************************************************)
EmptyMap == [k \in {} |-> ""]
NilMap == [isNil |-> TRUE, kv |-> EmptyMap]
MkMap(m) == [isNil |-> FALSE, kv |-> m]

\* m[k] = v of a Go map, metric.AddTag(k, v) of a metric's tags
AddTag(m, k, v) == [x \in (DOMAIN m) \cup {k} |-> IF x = k THEN v ELSE m[x]]

\* a range that adds only the tags the metric does not have yet
AddAllAbsent(m, tags) ==
  [x \in (DOMAIN m) \cup (DOMAIN tags) |-> IF x \in DOMAIN m THEN m[x] ELSE tags[x]]

\* for k, v := range tags { metric.AddTag(k, v) }: the keys of a map are
\* distinct, so the order of the range does not show in the result
AddAll(m, tags) ==
  [x \in (DOMAIN m) \cup (DOMAIN tags) |-> IF x \in DOMAIN tags THEN tags[x] ELSE m[x]]

(***************************************************************************)
(* The configurations a Tagger is constructed with.                        *)
(***************************************************************************)
\* refresh_interval in seconds: disabled, unset, configured
Intervals == {-1, 0, 5}
MetadataTagChoices ==
  { <<>>,
    <<mdKeyInstanceId, mdKeyInstaneType, mdKeyImageId>>,
    <<mdKeyImageId, "Bogus">> }
TagKeyChoices ==
  { <<>>,
    <<"*">>,
    <<cwDimensionASG, "Name">> }

(***************************************************************************)
(* The collaborators: the instance metadata service and the tag service.   *)
(***************************************************************************)
\* the identity document of the host
Doc == [InstanceID |-> "i-1", InstanceType |-> "t2", ImageID |-> "ami-1", Region |-> "r-1"]

\* no pagination token (a nil NextToken)
NoToken == 0

TagDesc(k, v) == [Key |-> k, Value |-> v]
\* the pages the tag service answers with
PageSet ==
  { << TagDesc("Name", "n1"), TagDesc(ec2InstanceTagKeyASG, "g1"),
       TagDesc(cwDimensionASG, "g0") >>,
    << TagDesc("Name", "n2"), TagDesc(mdKeyInstanceId, "x") >> }

\* whether the tag desc passes the filters of a query: the tags are those of
\* this instance, and a filter on the key lets through the keys it lists
\* ("*" in a filter value stands for any text)
Passes(filters, desc) ==
  \A i \in 1 .. Len(filters) :
    filters[i].Name = "key" =>
      \E j \in 1 .. Len(filters[i].Values) :
        filters[i].Values[j] \in {"*", desc.Key}

ErrResp == [err |-> TRUE, Tags |-> <<>>, NextToken |-> NoToken]
\* DescribeTags on input: an error, or a page of the tags that pass the
\* filters.  The token the service hands out is its cursor: the number of
\* pages still to come.  A first query opens a listing of 1..MaxPages pages,
\* a follow-up gets the page after the cursor.
Responses(input) ==
  {ErrResp} \cup
  { [err |-> FALSE,
     Tags |-> SelectSeq(p, LAMBDA desc : Passes(input.Filters, desc)),
     NextToken |-> n] :
      p \in PageSet,
      n \in (IF input.NextToken = NoToken
               THEN 0 .. (MaxPages - 1)
               ELSE {input.NextToken - 1}) }

\* os.Hostname() of the host, in bytes: "h1"; and of other hosts: none (the
\* call failed), "a", "web-1"
Hostname == <<104, 49>>
Hostnames == { <<>>, <<97>>, Hostname, <<119, 101, 98, 45, 49>> }

\* the metrics the pipeline hands to Apply, by their tags
Records ==
  { EmptyMap,
    [k \in {"Name", "ImageId", "host"} |-> IF k = "host" THEN "h1" ELSE "old"] }
Batches == UNION { [1 .. n -> Records] : n \in 0 .. MaxBatch }

Bump(n) == IF n < MaxCount THEN n + 1 ELSE n

VARIABLES
  \* configuration (fields of Tagger set from the configuration file)
  RefreshInterval, EC2MetadataTags, EC2InstanceTagKeys,
  \* fields of Tagger
  instanceId, instanceType, imageId, region,
  ec2TagsCache,     \* NilMap or MkMap(tags)
  done,             \* "nil", "open", "closed"
  \* what getEC2TagsFetchFunc captured
  ec2Client,        \* "none", or the region the client was built for
  tagFilters,       \* the filters of every query
  \* the pipeline thread
  pc,               \* "new", "startFetch", "startStore", "idle", "apply"
  startResult,      \* "none", "ok", "err": what Start returned
  stopCalled,
  crashed,          \* log.Fatalf ended the process
  sTags, sInput,    \* the startup fetch cycle: tags, input.NextToken
  sLog,             \* its DescribeTags calls so far, while sTags is in use (history,
                    \* entered by StartFetchPageLogged)
  metrics, orig, idx, snap,   \* Apply: in, in as it was given, loop index, tags
  \* the refreshTags goroutine
  schedPc,          \* "none", "sleep", "select", "fetch", "replace", "exited"
  ticker,           \* "none", "armed", "pending" (a tick in ticker.C), "stopped"
  rTags, rInput,    \* the refresh fetch cycle: tags, input.NextToken
  rLog,             \* its DescribeTags calls so far, while rTags is in use (history,
                    \* entered by SchedFetchPageLogged)
  \* the host
  hostname,         \* what os.Hostname() returns, in bytes
  \* history
  availCalls, docCalls,   \* calls of Available, GetInstanceIdentityDocument
  mdResult,               \* how the metadata service answered: "none", "unavailable", "docErr", "ok"
  startFetch,             \* how the startup fetch cycle ended: "none", "ok", "err"
  nCycles, nQueries,      \* fetch cycles begun, DescribeTags calls (up to MaxCount)
  qFilters,               \* the Filters of the last DescribeTags call
  qFailedAfter,           \* -1 when it returned a page (or none was made); when
                          \* it failed, the pages its cycle had received
  jitterLog,              \* the calls of hostJitter: maximum and outcome
  startTags,              \* what the startup fetch returned
  lastOk, prevOk,         \* what the last, and the one before last, successful cycle returned
  lastErr,                \* the last refresh cycle failed
  refreshed,              \* a refresh has stored its tags in the cache
  snapRefreshed           \* refreshed, when Apply read the cache

config == <<RefreshInterval, EC2MetadataTags, EC2InstanceTagKeys>>
identity == <<instanceId, instanceType, imageId, region>>
fetchFunc == <<ec2Client, tagFilters>>
startLocals == <<sTags, sInput, sLog>>
applyLocals == <<metrics, orig, idx, snap, snapRefreshed>>
schedLocals == <<rTags, rInput, rLog>>
mdHistory == <<availCalls, docCalls, mdResult>>
fetchHistory == <<nCycles, nQueries, qFilters, qFailedAfter>>
jitterVars == <<hostname, jitterLog>>
okHistory == <<startFetch, startTags, lastOk, prevOk, lastErr, refreshed>>

vars == <<config, identity, ec2TagsCache, done, fetchFunc, pc, startResult,
          stopCalled, crashed, startLocals, applyLocals, schedPc, ticker,
          schedLocals, mdHistory, fetchHistory, okHistory, jitterVars>>

\* a Tagger as constructed, but for its configuration, and its collaborators
InitTagger ==
  /\ instanceId = "" /\ instanceType = "" /\ imageId = "" /\ region = ""
  /\ ec2TagsCache = NilMap
  /\ done = "nil"
  /\ ec2Client = "none"
  /\ tagFilters = <<>>
  /\ pc = "new"
  /\ startResult = "none"
  /\ stopCalled = FALSE
  /\ crashed = FALSE
  /\ sTags = EmptyMap /\ sInput = NoToken /\ sLog = <<>>
  /\ metrics = <<>> /\ orig = <<>> /\ idx = 0 /\ snap = NilMap /\ snapRefreshed = FALSE
  /\ schedPc = "none"
  /\ ticker = "none"
  /\ rTags = EmptyMap /\ rInput = NoToken /\ rLog = <<>>
  /\ availCalls = 0 /\ docCalls = 0 /\ mdResult = "none"
  /\ startFetch = "none"
  /\ nCycles = 0 /\ nQueries = 0 /\ qFilters = <<>> /\ qFailedAfter = -1
  /\ jitterLog = <<>>
  /\ startTags = NilMap
  /\ lastOk = EmptyMap /\ prevOk = EmptyMap
  /\ lastErr = FALSE
  /\ refreshed = FALSE

Init ==
  /\ InitTagger
  /\ RefreshInterval \in Intervals
  /\ EC2MetadataTags \in MetadataTagChoices
  /\ EC2InstanceTagKeys \in TagKeyChoices
  /\ hostname = Hostname

(***************************************************************************)
(* Helpers of Tagger.                                                      *)
(***************************************************************************)
\* a Tagger that takes the empty list for a list of keys to fetch
isGettingEC2TagsOffByOne(keys) == Len(keys) >= 0

isGettingEC2Tags(keys) == Len(keys) > 0

\* a Tagger that takes every list that starts with "*" for the wildcard
isGettingAllFirstKey(keys) == Len(keys) >= 1 /\ keys[1] = "*"

isGettingAllEC2Tags(keys) == Len(keys) = 1 /\ keys[1] = "*"

\* a Tagger that takes every interval but zero for a refresh interval
isRefreshingNonZero(interval) == interval # 0

isRefreshingEC2Tags(interval) == interval > 0

\* getEC2Metadata against a metadata service that answers Available with
\* avail and fails the document call when docErr: the error, the fields it
\* sets, and the calls it made
getEC2Metadata(avail, docErr) ==
  IF ~avail
    THEN [err |-> TRUE, set |-> FALSE, availCalls |-> 1, docCalls |-> 0]
    ELSE IF docErr
      THEN [err |-> TRUE, set |-> FALSE, availCalls |-> 1, docCalls |-> 1]
      ELSE [err |-> FALSE, set |-> TRUE, availCalls |-> 1, docCalls |-> 1]

\* the loop over t.EC2InstanceTagKeys in getEC2TagsFetchFunc, which rewrites
\* the configured list in place
TranslateKeys(keys) ==
  [i \in 1 .. Len(keys) |->
     IF keys[i] = cwDimensionASG THEN ec2InstanceTagKeyASG ELSE keys[i]]

\* t.EC2InstanceTagKeys after getEC2TagsFetchFunc
KeysAfterBuild(keys) ==
  IF isGettingAllEC2Tags(keys) THEN keys ELSE TranslateKeys(keys)

Filter(name, values) == [Name |-> name, Values |-> values]

\* tagFilters as getEC2TagsFetchFunc builds them
BuildFilters(id, keys) ==
  LET base == << Filter("resource-type", <<"instance">>),
                 Filter("resource-id", <<id>>) >>
  IN  IF isGettingAllEC2Tags(keys)
        THEN base
        ELSE Append(base, Filter("key", TranslateKeys(keys)))

\* a closure that stores every tag under the key it came with
StoredKeyAsIs(key) == key

\* the key the closure stores a tag under: key := *tag.Key and the rename
StoredKey(key) == IF key = ec2InstanceTagKeyASG THEN cwDimensionASG ELSE key

\* for _, tag := range result.Tags { ... tags[key] = *tag.Value }
RECURSIVE Ingest(_, _)
Ingest(tags, descs) ==
  IF descs = <<>>
    THEN tags
    ELSE Ingest(AddTag(tags, StoredKey(Head(descs).Key), Head(descs).Value),
                Tail(descs))

\* a closure that returns after the first page
FetchStepFirstPage(tags, resp) ==
  IF resp.err
    THEN [status |-> "err", tags |-> EmptyMap, token |-> NoToken]
    ELSE [status |-> "done", tags |-> Ingest(tags, resp.Tags), token |-> NoToken]

\* a closure that returns the tags it has when a call fails
FetchStepPartialOnError(tags, resp) ==
  IF resp.err \/ resp.NextToken = NoToken
    THEN [status |-> "done",
          tags |-> IF resp.err THEN tags ELSE Ingest(tags, resp.Tags),
          token |-> NoToken]
    ELSE [status |-> "more", tags |-> Ingest(tags, resp.Tags), token |-> resp.NextToken]

\* one turn of the fetch closure's for loop on the answer resp of
\* DescribeTags: "err" (return nil, err), "more" (SetNextToken and go on),
\* "done" (return tags, nil)
FetchStep(tags, resp) ==
  IF resp.err
    THEN [status |-> "err", tags |-> EmptyMap, token |-> NoToken]
    ELSE IF resp.NextToken = NoToken
      THEN [status |-> "done", tags |-> Ingest(tags, resp.Tags), token |-> NoToken]
      ELSE [status |-> "more", tags |-> Ingest(tags, resp.Tags), token |-> resp.NextToken]

\* a closure that makes a new input, without the filters, for a follow-up
DescribeTagsInputFresh(filters, token) ==
  [Filters |-> IF token = NoToken THEN filters ELSE <<>>, NextToken |-> token]

\* input as the fetch closure passes it to DescribeTags: made with
\* Filters: tagFilters, and holding the token SetNextToken put in it
DescribeTagsInput(filters, token) == [Filters |-> filters, NextToken |-> token]

\* an entry of sLog and rLog: the token the call carried, the tags and the
\* token it returned
Call(input, resp) ==
  [sent |-> input.NextToken, Tags |-> resp.Tags, got |-> resp.NextToken]

(***************************************************************************)
(* hostJitter.  A uint64 is its 8 bytes, lowest first; a duration is a      *)
(* number of seconds, as RefreshInterval is.                               *)
(***************************************************************************)
\* hash/fnv: offset64 = 0xcbf29ce484222325, prime64 = 0x100000001b3
offset64 == <<37, 35, 34, 132, 228, 156, 242, 203>>
prime64 == <<179, 1, 0, 0, 0, 1, 0, 0>>

\* x[i] * y[k + 1 - i] summed over i .. k: byte k of x * y before the carry
RECURSIVE Column(_, _, _, _)
Column(x, y, k, i) ==
  IF i > k THEN 0 ELSE x[i] * y[k + 1 - i] + Column(x, y, k, i + 1)

RECURSIVE MulFrom(_, _, _, _)
MulFrom(x, y, k, carry) ==
  IF k > Len(x)
    THEN <<>>
    ELSE LET t == Column(x, y, k, 1) + carry
         IN  <<t % 256>> \o MulFrom(x, y, k + 1, t \div 256)

\* x * y of two uint64
Mul64(x, y) == MulFrom(x, y, 1, 0)

\* a ^ b on the lowest n bits
RECURSIVE XorBits(_, _, _)
XorBits(a, b, n) ==
  IF n = 0 THEN 0 ELSE ((a + b) % 2) + 2 * XorBits(a \div 2, b \div 2, n - 1)

\* hash.Write(data) of fnv.New64(): for each byte c, hash *= prime64 and
\* hash ^= c
RECURSIVE Write64(_, _)
Write64(hash, data) ==
  IF data = <<>>
    THEN hash
    ELSE Write64([Mul64(hash, prime64) EXCEPT ![1] = XorBits(@, Head(data), 8)],
                 Tail(data))

\* hash.Sum64() after hash.Write([]byte(hostname)), for every host name
HostHash == [h \in Hostnames |-> Write64(offset64, h)]
Sum64(h) == HostHash[h]

\* x >> 1
Shr1(x) ==
  [i \in 1 .. Len(x) |->
     (x[i] \div 2) + (IF i < Len(x) THEN (x[i + 1] % 2) * 128 ELSE 0)]

\* the uint64 made of the bytes i .. of x, modulo m > 0
RECURSIVE ModFrom(_, _, _)
ModFrom(x, i, m) ==
  IF i > Len(x) THEN 0 ELSE (ModFrom(x, i + 1, m) * 256 + x[i]) % m

\* 256^k modulo m > 0
RECURSIVE PowMod(_, _)
PowMod(k, m) == IF k = 0 THEN 1 % m ELSE (PowMod(k - 1, m) * 256) % m

Abs(n) == IF n < 0 THEN 0 - n ELSE n

\* time.Duration(int64(x)) % max for max # 0: int64 takes x with its top bit
\* set for x - 2^64, and the remainder has the sign of the dividend
Int64Rem(x, max) ==
  LET m == Abs(max)
  IN  IF x[Len(x)] < 128
        THEN ModFrom(x, 1, m)
        ELSE 0 - ((PowMod(Len(x), m) + m - ModFrom(x, 1, m)) % m)

\* hash.Sum64() >> 1, for every host name
HostHashShr1 == [h \in Hostnames |-> Shr1(Sum64(h))]

\* a hostJitter without the shift
hostJitterNoShift(h, max) ==
  IF max = 0
    THEN [panic |-> TRUE, j |-> 0]
    ELSE [panic |-> FALSE, j |-> Int64Rem(Sum64(h), max)]

\* hostJitter(max) on the host named h: the division by zero is a run-time
\* panic
hostJitter(h, max) ==
  IF max = 0
    THEN [panic |-> TRUE, j |-> 0]
    ELSE [panic |-> FALSE, j |-> Int64Rem(HostHashShr1[h], max)]

\* an entry of jitterLog
JitterCall(max, r) == [max |-> max, panic |-> r.panic, j |-> r.j]

(***************************************************************************)
(* Start.                                                                  *)
(***************************************************************************)
\* a Start that leaves the cache as it is
StartStoreSkipped(tags) == ec2TagsCache

\* what Start stores in t.ec2TagsCache when the startup fetch returned tags
StartStore(tags) == MkMap(tags)

\* a Start that launches refreshTags whatever the interval
StartSpawnsAlways(interval) == TRUE

\* whether Start launches go t.refreshTags(fetchEC2Tags)
StartSpawns(interval) == isRefreshingEC2Tags(interval)

\* a Start that keeps the configured interval
DefaultedIntervalKept(interval) == interval

\* t.RefreshInterval.Duration after the defaulting at the head of Start's
\* isGettingEC2Tags branch
DefaultedInterval(interval) ==
  IF interval = 0 THEN defaultRefreshInterval ELSE interval

\* a Start that drops the error of getEC2Metadata
StartIgnoresMdError(mdErr) == TRUE

\* whether Start goes on after getEC2Metadata returned with error mdErr
StartProceeds(mdErr) == ~mdErr

\* Start up to the first DescribeTags call: getEC2Metadata, and with tag keys
\* configured the done channel, the defaulting of the interval and
\* getEC2TagsFetchFunc (the client, the filters, the rewrite of the keys)
StartBegin ==
  /\ pc = "new" /\ ~crashed
  /\ \E avail \in BOOLEAN, docErr \in BOOLEAN :
       LET md == getEC2Metadata(avail, docErr) IN
       /\ availCalls' = availCalls + md.availCalls
       /\ docCalls' = docCalls + md.docCalls
       /\ mdResult' = IF ~avail THEN "unavailable" ELSE IF docErr THEN "docErr" ELSE "ok"
       /\ IF md.set
            THEN /\ instanceId' = Doc.InstanceID
                 /\ instanceType' = Doc.InstanceType
                 /\ imageId' = Doc.ImageID
                 /\ region' = Doc.Region
            ELSE UNCHANGED identity
       /\ IF ~StartProceeds(md.err)
            THEN /\ pc' = "idle"
                 /\ startResult' = "err"
                 /\ UNCHANGED <<config, done, fetchFunc, nCycles>>
            ELSE IF isGettingEC2Tags(EC2InstanceTagKeys)
              THEN /\ done' = "open"
                   /\ RefreshInterval' = DefaultedInterval(RefreshInterval)
                   /\ ec2Client' = region'
                   /\ tagFilters' = BuildFilters(instanceId', EC2InstanceTagKeys)
                   /\ EC2InstanceTagKeys' = KeysAfterBuild(EC2InstanceTagKeys)
                   /\ nCycles' = Bump(nCycles)
                   /\ pc' = "startFetch"
                   /\ UNCHANGED <<EC2MetadataTags, startResult>>
              ELSE /\ pc' = "idle"
                   /\ startResult' = "ok"
                   /\ UNCHANGED <<config, done, fetchFunc, nCycles>>
  /\ sTags' = EmptyMap /\ sInput' = NoToken /\ sLog' = <<>>
  /\ UNCHANGED <<ec2TagsCache, stopCalled, crashed, applyLocals, schedPc, ticker,
                 schedLocals, nQueries, qFilters, qFailedAfter, okHistory, jitterVars>>

\* a Start without the return on the error of fetchEC2Tags
StartAfterFetchNoReturn(failed, tags, interval) ==
  [result |-> "ok", cache |-> StartStore(tags), spawn |-> StartSpawns(interval)]

\* Start from the return of fetchEC2Tags on: the error return, or the store
\* in the cache and the launch of refreshTags
StartAfterFetch(failed, tags, interval) ==
  IF failed
    THEN [result |-> "err", cache |-> ec2TagsCache, spawn |-> FALSE]
    ELSE [result |-> "ok", cache |-> StartStore(tags), spawn |-> StartSpawns(interval)]

\* one DescribeTags call of the startup fetch cycle; on its error the
\* closure returns it and Start returns.  The call is entered in sLog when
\* logged.
StartFetchPageOf(logged) ==
  /\ pc = "startFetch" /\ ~crashed
  /\ LET input == DescribeTagsInput(tagFilters, sInput) IN
     \E resp \in Responses(input) :
       LET step == FetchStep(sTags, resp) IN
       /\ nQueries' = Bump(nQueries)
       /\ qFilters' = input.Filters
       /\ qFailedAfter' = IF logged /\ resp.err THEN Len(sLog) ELSE -1
       /\ CASE step.status = "err" ->
                 LET after == StartAfterFetch(TRUE, step.tags, RefreshInterval)
                 IN  /\ ec2TagsCache' = after.cache
                     /\ schedPc' = IF after.spawn THEN "sleep" ELSE schedPc
                     /\ startResult' = after.result
                     /\ pc' = "idle"
                     /\ sTags' = EmptyMap /\ sInput' = NoToken /\ sLog' = <<>>
                     /\ startFetch' = "err"
            [] step.status = "more" ->
                 /\ sTags' = step.tags
                 /\ sInput' = step.token
                 /\ sLog' = IF logged THEN Append(sLog, Call(input, resp)) ELSE sLog
                 /\ UNCHANGED <<pc, startResult, ec2TagsCache, schedPc, startFetch>>
            [] step.status = "done" ->
                 /\ pc' = "startStore"
                 /\ sTags' = step.tags
                 /\ sInput' = NoToken
                 /\ sLog' = IF logged THEN Append(sLog, Call(input, resp)) ELSE sLog
                 /\ UNCHANGED <<startResult, ec2TagsCache, schedPc, startFetch>>
  /\ UNCHANGED <<config, identity, done, fetchFunc, stopCalled, crashed,
                 applyLocals, ticker, schedLocals, mdHistory, nCycles, startTags,
                 lastOk, prevOk, lastErr, refreshed, jitterVars>>

StartFetchPage == StartFetchPageOf(FALSE)

StartFetchPageLogged == StartFetchPageOf(TRUE)

\* the closure has returned tags: the store in the cache, the launch of
\* refreshTags, return nil
StartReturn ==
  /\ pc = "startStore" /\ ~crashed
  /\ LET after == StartAfterFetch(FALSE, sTags, RefreshInterval) IN
       /\ ec2TagsCache' = after.cache
       /\ schedPc' = IF after.spawn THEN "sleep" ELSE schedPc
       /\ startResult' = after.result
  /\ pc' = "idle"
  /\ startFetch' = "ok"
  /\ startTags' = MkMap(sTags)
  /\ lastOk' = sTags
  /\ prevOk' = sTags
  /\ sTags' = EmptyMap /\ sInput' = NoToken /\ sLog' = <<>>
  /\ UNCHANGED <<config, identity, done, fetchFunc, stopCalled, crashed,
                 applyLocals, ticker, schedLocals, mdHistory, fetchHistory,
                 lastErr, refreshed, jitterVars>>

(***************************************************************************)
(* Stop.                                                                   *)
(***************************************************************************)
\* a Stop that closes nothing
StopLeavesOpen(d) == d

\* close(ch): a nil or closed channel makes it panic
Close(d) == [panic |-> d # "open", ch |-> IF d = "open" THEN "closed" ELSE d]

\* a Stop that closes t.done without looking at it
StopChecksNothing(d) == TRUE

\* if t.done != nil
StopChecksNil(d) == d # "nil"

\* t.done after Stop
StopCloses(d) == IF StopChecksNil(d) THEN Close(d).ch ELSE d

\* whether Stop panics
StopPanics(d) == StopChecksNil(d) /\ Close(d).panic

\* the pipeline calls Stop once, between two other calls
Stop ==
  /\ pc \in {"new", "idle"} /\ ~crashed
  /\ ~stopCalled
  /\ stopCalled' = TRUE
  /\ done' = StopCloses(done)
  /\ crashed' = StopPanics(done)
  /\ UNCHANGED <<config, identity, ec2TagsCache, fetchFunc, pc, startResult,
                 startLocals, applyLocals, schedPc, ticker, schedLocals,
                 mdHistory, fetchHistory, okHistory, jitterVars>>

(***************************************************************************)
(* Apply.                                                                  *)
(***************************************************************************)
\* for _, tag := range t.EC2MetadataTags { switch tag ... } on one metric:
\* the metric's tags, and whether log.Fatalf was reached
RECURSIVE AddMetadata(_, _)
AddMetadata(m, names) ==
  IF names = <<>>
    THEN [fatal |-> FALSE, tags |-> m]
    ELSE CASE Head(names) = mdKeyInstanceId ->
                AddMetadata(AddTag(m, mdKeyInstanceId, instanceId), Tail(names))
           [] Head(names) = mdKeyImageId ->
                AddMetadata(AddTag(m, mdKeyImageId, imageId), Tail(names))
           [] Head(names) = mdKeyInstaneType ->
                AddMetadata(AddTag(m, mdKeyInstaneType, instanceType), Tail(names))
           [] OTHER -> [fatal |-> TRUE, tags |-> m]

\* a loop body that adds the metadata before the tags
ApplyMetricMetadataFirst(m, tags) ==
  LET r == AddMetadata(m, EC2MetadataTags)
  IN  [fatal |-> r.fatal, tags |-> AddAll(r.tags, tags.kv)]

\* a loop body whose default case logs the name and goes on
ApplyMetricLogsOnly(m, tags) ==
  [fatal |-> FALSE, tags |-> AddMetadata(AddAll(m, tags.kv), EC2MetadataTags).tags]

\* the body of Apply's loop on one metric: the tags, then the metadata
ApplyMetric(m, tags) == AddMetadata(AddAll(m, tags.kv), EC2MetadataTags)

\* what Apply reads under the read lock
ApplyReads(cache) == cache

\* a loop body that adds the metadata tags to tags, the map the cache holds
ApplyStampsCache(cache) ==
  IF cache.isNil THEN cache ELSE MkMap(AddMetadata(cache.kv, EC2MetadataTags).tags)

\* t.ec2TagsCache after a turn of Apply's loop: AddTag writes the metric,
\* and tags, the map of the cache, is only ranged over
ApplyLeavesCache(cache) == cache

\* the pipeline calls Apply, with one of batches, after a Start that
\* succeeded and before Stop: RLock, tags := t.ec2TagsCache, RUnlock
ApplyBeginOf(batches) ==
  /\ pc = "idle" /\ ~crashed
  /\ startResult = "ok" /\ ~stopCalled
  /\ \E batch \in batches :
       /\ metrics' = batch
       /\ orig' = batch
  /\ idx' = 1
  /\ snap' = ApplyReads(ec2TagsCache)
  /\ snapRefreshed' = refreshed
  /\ pc' = "apply"
  /\ UNCHANGED <<config, identity, ec2TagsCache, done, fetchFunc, startResult,
                 stopCalled, crashed, startLocals, schedPc, ticker, schedLocals,
                 mdHistory, fetchHistory, okHistory, jitterVars>>

ApplyBegin == ApplyBeginOf(Batches)

\* a loop that reads t.ec2TagsCache again for every metric
ApplyTagsReread(tags, cache) == cache

\* the map a turn of the loop ranges over: tags, the local that was read
\* before the loop
ApplyTags(tags, cache) == tags

\* one turn of for _, metric := range in
ApplyRecord ==
  /\ pc = "apply" /\ ~crashed
  /\ idx <= Len(metrics)
  /\ LET r == ApplyMetric(metrics[idx], ApplyTags(snap, ec2TagsCache)) IN
       /\ metrics' = [metrics EXCEPT ![idx] = r.tags]
       /\ crashed' = r.fatal
       /\ idx' = IF r.fatal THEN idx ELSE idx + 1
  /\ ec2TagsCache' = ApplyLeavesCache(ec2TagsCache)
  /\ UNCHANGED <<config, identity, done, fetchFunc, pc, startResult,
                 stopCalled, startLocals, orig, snap, snapRefreshed, schedPc, ticker,
                 schedLocals, mdHistory, fetchHistory, okHistory, jitterVars>>

\* return in
ApplyReturn ==
  /\ pc = "apply" /\ ~crashed
  /\ idx > Len(metrics)
  /\ pc' = "idle"
  /\ metrics' = <<>> /\ orig' = <<>> /\ idx' = 0 /\ snap' = NilMap /\ snapRefreshed' = FALSE
  /\ UNCHANGED <<config, identity, ec2TagsCache, done, fetchFunc, startResult,
                 stopCalled, crashed, startLocals, schedPc, ticker, schedLocals,
                 mdHistory, fetchHistory, okHistory, jitterVars>>

(***************************************************************************)
(* refreshTags.                                                            *)
(***************************************************************************)
\* hostJitter(t.RefreshInterval.Duration), the sleep of that long, and
\* ticker := time.NewTicker(...)
SchedWake ==
  /\ schedPc = "sleep" /\ ~crashed
  /\ LET r == hostJitter(hostname, RefreshInterval) IN
       /\ jitterLog' = Append(jitterLog, JitterCall(RefreshInterval, r))
       /\ crashed' = r.panic
       /\ schedPc' = IF r.panic THEN schedPc ELSE "select"
       /\ ticker' = IF r.panic THEN ticker ELSE "armed"
  /\ UNCHANGED <<config, identity, ec2TagsCache, done, fetchFunc, pc, startResult,
                 stopCalled, startLocals, applyLocals, schedLocals,
                 mdHistory, fetchHistory, okHistory, hostname>>

\* the interval elapses: the runtime puts a tick in ticker.C (a channel of
\* one; a tick that finds it full is dropped)
TickerFire ==
  /\ ticker = "armed" /\ ~crashed
  /\ ticker' = "pending"
  /\ UNCHANGED <<config, identity, ec2TagsCache, done, fetchFunc, pc, startResult,
                 stopCalled, crashed, startLocals, applyLocals, schedPc,
                 schedLocals, mdHistory, fetchHistory, okHistory, jitterVars>>

\* a goroutine that receives from ticker.C wherever it is
AwaitsTickAnywhere(p) == p \in {"select", "fetch", "replace"}

\* where refreshTags receives from ticker.C: in its select
AwaitsTick(p) == p = "select"

\* a select whose tick case is ready before the interval has elapsed
TickReadyAtOnce(t) == t \in {"armed", "pending"}

\* case <-ticker.C is ready: there is a tick in the channel
TickReady(t) == t = "pending"

\* select takes case <-ticker.C and calls refreshFunc
SchedTick ==
  /\ AwaitsTick(schedPc) /\ ~crashed
  /\ TickReady(ticker)
  /\ ticker' = "armed"
  /\ schedPc' = "fetch"
  /\ rTags' = EmptyMap /\ rInput' = NoToken /\ rLog' = <<>>
  /\ nCycles' = Bump(nCycles)
  /\ UNCHANGED <<config, identity, ec2TagsCache, done, fetchFunc, pc, startResult,
                 stopCalled, crashed, startLocals, applyLocals, mdHistory,
                 nQueries, qFilters, qFailedAfter, okHistory, jitterVars>>

\* select takes case <-t.done: return, and the deferred ticker.Stop()
SchedDone ==
  /\ schedPc = "select" /\ ~crashed
  /\ done = "closed"
  /\ schedPc' = "exited"
  /\ ticker' = "stopped"
  /\ UNCHANGED <<config, identity, ec2TagsCache, done, fetchFunc, pc, startResult,
                 stopCalled, crashed, startLocals, applyLocals, schedLocals,
                 mdHistory, fetchHistory, okHistory, jitterVars>>

\* a refreshTags that returns on the error of refreshFunc
AfterRefreshErrorReturn == "exited"

\* where refreshTags goes when refreshFunc returned an error: the continue
AfterRefreshError == "select"

\* a refreshTags that stores the nil map of a failed refreshFunc
CacheClearedOnError(cache) == NilMap

\* t.ec2TagsCache when refreshFunc returned an error
CacheOnRefreshError(cache) == cache

\* a fetch closure that fills the cached map instead of a map of its own
CacheFilledInPlace(cache, tags) == MkMap(tags)

\* t.ec2TagsCache while the fetch closure fills tags, the map it made for
\* this cycle
CacheWhileFetching(cache, tags) == cache

\* one DescribeTags call of a refresh fetch cycle
SchedFetchPageOf(logged) ==
  /\ schedPc = "fetch" /\ ~crashed
  /\ LET input == DescribeTagsInput(tagFilters, rInput) IN
     \E resp \in Responses(input) :
       LET step == FetchStep(rTags, resp) IN
       /\ nQueries' = Bump(nQueries)
       /\ qFilters' = input.Filters
       /\ qFailedAfter' = IF logged /\ resp.err THEN Len(rLog) ELSE -1
       /\ CASE step.status = "err" ->
                 /\ schedPc' = AfterRefreshError
                 /\ ec2TagsCache' = CacheOnRefreshError(ec2TagsCache)
                 /\ lastErr' = TRUE
                 /\ rTags' = EmptyMap /\ rInput' = NoToken /\ rLog' = <<>>
                 /\ UNCHANGED <<lastOk, prevOk>>
            [] step.status = "more" ->
                 /\ rTags' = step.tags
                 /\ rInput' = step.token
                 /\ rLog' = IF logged THEN Append(rLog, Call(input, resp)) ELSE rLog
                 /\ ec2TagsCache' = CacheWhileFetching(ec2TagsCache, step.tags)
                 /\ UNCHANGED <<schedPc, lastErr, lastOk, prevOk>>
            [] step.status = "done" ->
                 /\ schedPc' = "replace"
                 /\ rTags' = step.tags
                 /\ rInput' = NoToken
                 /\ rLog' = IF logged THEN Append(rLog, Call(input, resp)) ELSE rLog
                 /\ lastErr' = FALSE
                 /\ lastOk' = step.tags
                 /\ prevOk' = lastOk
                 /\ UNCHANGED ec2TagsCache
  /\ UNCHANGED <<config, identity, done, fetchFunc, pc, startResult, stopCalled,
                 crashed, startLocals, applyLocals, ticker, mdHistory, nCycles,
                 startFetch, startTags, refreshed, jitterVars>>

SchedFetchPage == SchedFetchPageOf(FALSE)

SchedFetchPageLogged == SchedFetchPageOf(TRUE)

\* a refresh that adds the new tags to the cached ones
RefreshStoreMerged(newTags) == MkMap(AddAll(ec2TagsCache.kv, newTags))

\* what the refresh stores in t.ec2TagsCache
RefreshStore(newTags) == MkMap(newTags)

\* Lock, t.ec2TagsCache = newTags, Unlock
SchedReplace ==
  /\ schedPc = "replace" /\ ~crashed
  /\ ec2TagsCache' = RefreshStore(rTags)
  /\ prevOk' = lastOk
  /\ refreshed' = TRUE
  /\ schedPc' = "select"
  /\ rTags' = EmptyMap /\ rLog' = <<>>
  /\ UNCHANGED <<config, identity, done, fetchFunc, pc, startResult, stopCalled,
                 crashed, startLocals, applyLocals, ticker, rInput, mdHistory,
                 fetchHistory, startFetch, startTags, lastOk, lastErr, jitterVars>>

Next ==
  \/ StartBegin
  \/ StartFetchPage
  \/ StartReturn
  \/ Stop
  \/ ApplyBegin
  \/ ApplyRecord
  \/ ApplyReturn
  \/ SchedWake
  \/ TickerFire
  \/ SchedTick
  \/ SchedDone
  \/ SchedFetchPage
  \/ SchedReplace

Spec == Init /\ [][Next]_vars

\* a Tagger configured with all tags and all metadata attributes
LiveInit ==
  /\ Init
  /\ EC2MetadataTags = <<mdKeyInstanceId, mdKeyInstaneType, mdKeyImageId>>
  /\ EC2InstanceTagKeys = <<"*">>

\* Apply on no metric or on one
ApplyBeginShort == ApplyBeginOf({ b \in Batches : Len(b) <= 1 })

LiveNext ==
  \/ StartBegin
  \/ StartFetchPage
  \/ StartReturn
  \/ Stop
  \/ ApplyBeginShort
  \/ ApplyRecord
  \/ ApplyReturn
  \/ SchedWake
  \/ TickerFire
  \/ SchedTick
  \/ SchedDone
  \/ SchedFetchPage
  \/ SchedReplace

\* The behaviours of a Tagger configured as in LiveInit and given batches
\* of at most one metric (refreshTags reads neither the configured names nor
\* the metrics), under the scheduling of the Go runtime: the goroutine runs
\* while it can, the runtime timer fires, a call of DescribeTags returns,
\* and a select with both cases ready picks at random, so it does not pass
\* over the done case for ever.
FairSpec ==
  /\ LiveInit /\ [][LiveNext]_vars
  /\ WF_vars(SchedWake)
  /\ WF_vars(TickerFire)
  /\ WF_vars(SchedTick)
  /\ WF_vars(SchedFetchPage)
  /\ WF_vars(SchedReplace)
  /\ SF_vars(SchedDone)

\* the lists of tag keys a configuration file can hold: the wildcard, the
\* two names of the group tag, another key, in every order
KeyAlphabet == {"*", cwDimensionASG, ec2InstanceTagKeyASG, "Name"}
KeyLists == UNION { [1 .. n -> KeyAlphabet] : n \in 0 .. MaxKeys }

\* a Tagger configured with any of the lists of tag keys, no metadata
\* attribute, and refreshing on or off; its fetch cycles keep the log of
\* their DescribeTags calls
KeysInit ==
  /\ InitTagger
  /\ RefreshInterval \in {-1, 5}
  /\ EC2MetadataTags = <<>>
  /\ EC2InstanceTagKeys \in KeyLists
  /\ hostname = Hostname

\* Apply on one metric without tags
ApplyBeginBare == ApplyBeginOf({ <<EmptyMap>> })

KeysNext ==
  \/ StartBegin
  \/ StartFetchPageLogged
  \/ StartReturn
  \/ Stop
  \/ ApplyBeginBare
  \/ ApplyRecord
  \/ ApplyReturn
  \/ SchedWake
  \/ TickerFire
  \/ SchedTick
  \/ SchedDone
  \/ SchedFetchPageLogged
  \/ SchedReplace

KeysSpec == KeysInit /\ [][KeysNext]_vars

\* the maxima hostJitter is called with
Durations == (0 - MaxDuration) .. MaxDuration

\* a host of any name, and a Tagger that is never started
JitterInit ==
  /\ InitTagger
  /\ RefreshInterval = 0
  /\ EC2MetadataTags = <<>>
  /\ EC2InstanceTagKeys = <<>>
  /\ hostname \in Hostnames

\* a call of hostJitter(max)
HostJitterCall ==
  /\ ~crashed
  /\ Len(jitterLog) < MaxCount
  /\ \E max \in Durations :
       LET r == hostJitter(hostname, max) IN
       /\ jitterLog' = Append(jitterLog, JitterCall(max, r))
       /\ crashed' = r.panic
  /\ UNCHANGED <<config, identity, ec2TagsCache, done, fetchFunc, pc, startResult,
                 stopCalled, startLocals, applyLocals, schedPc, ticker, schedLocals,
                 mdHistory, fetchHistory, okHistory, hostname>>

JitterNext == HostJitterCall

JitterSpec == JitterInit /\ [][JitterNext]_vars

(***************************************************************************)
(* Vocabulary of the properties.                                           *)
(***************************************************************************)
\* the configured metadata attribute names
MdNames == { EC2MetadataTags[i] : i \in 1 .. Len(EC2MetadataTags) }

\* the field of the host's identity document an attribute name stands for
DocField(name) ==
  CASE name = "InstanceId" -> Doc.InstanceID
    [] name = "ImageId" -> Doc.ImageID
    [] name = "InstanceType" -> Doc.InstanceType

\* the metrics of the running Apply call that have been through its loop
Stamped == IF pc = "apply" THEN 1 .. (idx - 1) ELSE {}

\* the tags of a metric given as rec: those of base, and one tag per
\* configured metadata attribute name, over those of rec
StampOf(rec, base) ==
  [k \in (DOMAIN rec) \cup (DOMAIN base) \cup MdNames |->
     IF k \in MdNames THEN DocField(k)
     ELSE IF k \in DOMAIN base THEN base[k]
     ELSE rec[k]]

\* the pipeline thread takes the step that is Apply's read of the cache
ApplyReadStep == pc = "idle" /\ pc' = "apply"

\* refreshTags takes the step in which refreshFunc returns an error
RefreshErrorStep == schedPc = "fetch" /\ schedPc' # "fetch" /\ lastErr'

\* Start takes the step in which it builds the fetch closure
BuildStep == pc = "new" /\ pc' = "startFetch"

\* the filters on the key among filters
KeyFilters(filters) == SelectSeq(filters, LAMBDA f : f.Name = "key")

\* the tags a fetch cycle received, in the order it received them
RECURSIVE Received(_)
Received(log) ==
  IF log = <<>> THEN <<>> ELSE Head(log).Tags \o Received(Tail(log))

\* refreshTags receives a tick from ticker.C
TickTaken == ticker = "pending" /\ ticker' = "armed"

\* refreshTags begins a fetch cycle
RefreshBegins == schedPc # "fetch" /\ schedPc' = "fetch"

\* the fetch cycles that have begun and not returned
CyclesInFlight ==
  (IF pc = "startFetch" THEN 1 ELSE 0) + (IF schedPc = "fetch" THEN 1 ELSE 0)

\* the key a tag is exposed under
Shown(key) ==
  IF key = "aws:autoscaling:groupName" THEN "AutoScalingGroupName" ELSE key

\* the mapping of the tags recv, the later of two tags shown under one key
\* winning
UnionOf(recv) ==
  [k \in { Shown(recv[i].Key) : i \in 1 .. Len(recv) } |->
     recv[CHOOSE i \in 1 .. Len(recv) :
            /\ Shown(recv[i].Key) = k
            /\ \A j \in (i + 1) .. Len(recv) : Shown(recv[j].Key) # k].Value]

\* log is the calls of a fetch cycle that follows the pagination protocol,
\* token the token its next call will carry, tags what it has gathered;
\* complete: the cycle has returned.  The first token the service hands out
\* is the number of pages that follow the first.
Paginated(log, token, tags, complete) ==
  /\ log = <<>> => (token = NoToken /\ ~complete)
  /\ log # <<>> => log[1].sent = NoToken
  /\ \A i \in 1 .. (Len(log) - 1) :
       log[i].got # NoToken /\ log[i + 1].sent = log[i].got
  /\ (log # <<>> /\ ~complete) =>
       (log[Len(log)].got # NoToken /\ token = log[Len(log)].got)
  /\ complete =>
       (log[Len(log)].got = NoToken /\ Len(log) = log[1].got + 1)
  /\ tags = UnionOf(Received(log))

\* the startup fetch cycle, a refresh fetch cycle, ends on a call that failed
StartQueryFails == pc = "startFetch" /\ pc' # "startFetch" /\ qFailedAfter' >= 0
RefreshQueryFails == schedPc = "fetch" /\ schedPc' # "fetch" /\ qFailedAfter' >= 0

\* the two names of the group tag
GroupKeys == {"aws:autoscaling:groupName", "AutoScalingGroupName"}

\* tags holds under "AutoScalingGroupName" the value of every tag of log
\* keyed "aws:autoscaling:groupName"
GroupTagKept(log, tags) ==
  LET recv == Received(log) IN
  \A i \in 1 .. Len(recv) :
    recv[i].Key = "aws:autoscaling:groupName" =>
      /\ "AutoScalingGroupName" \in DOMAIN tags
      /\ tags["AutoScalingGroupName"] = recv[i].Value

\* tags holds under "AutoScalingGroupName" the value of the last tag of log
\* keyed with one of the two names, and no such key when there is none
GroupTagLast(log, tags) ==
  LET recv == Received(log)
      at == { i \in 1 .. Len(recv) : recv[i].Key \in GroupKeys }
  IN  IF at = {}
        THEN "AutoScalingGroupName" \notin DOMAIN tags
        ELSE /\ "AutoScalingGroupName" \in DOMAIN tags
             /\ \A i \in at :
                  (\A k \in at : k <= i) =>
                    tags["AutoScalingGroupName"] = recv[i].Value

(***************************************************************************)
(* C1.  After a successful Start, an Apply call that reads the cache       *)
(* before any refresh has stored its tags gives a metric that came with no *)
(* tags exactly the tags the startup fetch returned plus one tag per       *)
(* configured metadata attribute name, valued with the field of the        *)
(* identity document.                                                      *)
(***************************************************************************)
C1_FirstApplyExact ==
  (startFetch = "ok" /\ ~snapRefreshed) =>
    \A i \in Stamped :
      orig[i] = EmptyMap =>
        /\ DOMAIN metrics[i] = (DOMAIN startTags.kv) \cup MdNames
        /\ \A k \in DOMAIN metrics[i] :
             metrics[i][k] = IF k \in MdNames THEN DocField(k) ELSE startTags.kv[k]

\* a bare metric stamped before any refresh, with an instance tag and a
\* metadata attribute of the same key
C1_Witness ==
  /\ startFetch = "ok" /\ ~snapRefreshed
  /\ pc = "apply" /\ idx > Len(metrics) /\ Len(metrics) >= 1
  /\ orig[1] = EmptyMap
  /\ mdKeyInstanceId \in DOMAIN startTags.kv
  /\ MdNames = {mdKeyInstanceId, mdKeyImageId, mdKeyInstaneType}
  /\ metrics[1][mdKeyInstanceId] = Doc.InstanceID

(***************************************************************************)
(* C2.  A refresh fetch that returns an error leaves the cache as it was   *)
(* before the tick; while the last refresh is a failed one the cache, and  *)
(* what an Apply call reads, is the result of the last successful cycle;   *)
(* and the refresh that next succeeds stores its whole mapping.            *)
(***************************************************************************)
C2_RefreshErrorKeepsCache ==
  /\ [][RefreshErrorStep => ec2TagsCache' = ec2TagsCache]_vars
  /\ [](lastErr => ec2TagsCache = MkMap(lastOk))
  /\ [][(lastErr /\ ApplyReadStep) => snap' = MkMap(lastOk)]_vars
  /\ [][(schedPc = "replace" /\ schedPc' # "replace") =>
          ec2TagsCache' = MkMap(lastOk)]_vars

\* an Apply call has read the cache after a refresh stored tags and the
\* refresh after it failed
C2_Witness ==
  /\ lastErr /\ refreshed
  /\ pc = "apply" /\ idx > Len(metrics) /\ Len(metrics) >= 1
  /\ snap = MkMap(lastOk)
  /\ startTags # MkMap(lastOk)

(***************************************************************************)
(* C3.  A failed refresh does not end refreshTags: while the last refresh  *)
(* is a failed one the goroutine has exited only if done is closed, and    *)
(* unless done gets closed (or the process is ended) it goes from its      *)
(* select to a next fetch; a refresh fetch that then succeeds is stored in *)
(* the cache.                                                              *)
(***************************************************************************)
C3_FailedRefreshKeepsTicking ==
  /\ [](lastErr => (schedPc # "exited" \/ done = "closed"))
  /\ ((lastErr /\ schedPc = "select") ~>
        (schedPc = "fetch" \/ done = "closed" \/ crashed))
  /\ ((lastErr /\ schedPc = "fetch") ~>
        (lastErr /\ schedPc = "select") \/ schedPc = "replace" \/ crashed)
  /\ (schedPc = "replace" ~>
        ((schedPc # "replace" /\ ec2TagsCache = MkMap(lastOk)) \/ crashed))

\* after a failed refresh, with done open, the goroutine is in its next
\* fetch
C3_Witness ==
  /\ lastErr /\ schedPc = "fetch"
  /\ done = "open" /\ ~stopCalled
  /\ refreshed

(***************************************************************************)
(* C4.  After a successful startup fetch the cache always holds the whole  *)
(* result of one successfully completed fetch cycle (the last one, or the  *)
(* one before while the last is yet to be stored), never the map a fetch   *)
(* in progress is filling, and an Apply call reads the cache as it is.     *)
(***************************************************************************)
C4_ReadsOneCompleteCycle ==
  /\ [](startFetch = "ok" =>
          ec2TagsCache = MkMap(IF schedPc = "replace" THEN prevOk ELSE lastOk))
  /\ [][ApplyReadStep => snap' = ec2TagsCache]_vars

\* an Apply call holds the tags it read while a refresh fetch has received
\* a first page that differs from them
C4_Witness ==
  /\ pc = "apply" /\ idx = 2
  /\ schedPc = "fetch" /\ rInput # NoToken
  /\ rTags # snap.kv
  /\ snap = ec2TagsCache

(***************************************************************************)
(* C5.  Stop closes the done channel when there is one; once done is       *)
(* closed with refreshTags running, the goroutine exits (or the process is *)
(* ended), and once it has exited it stays so, no fetch cycle is begun and *)
(* no tag query is made.                                                   *)
(***************************************************************************)
C5_StopEndsRefresh ==
  /\ [][(~stopCalled /\ stopCalled' /\ done # "nil") => done' = "closed"]_vars
  /\ ((done = "closed" /\ schedPc \in {"sleep", "select", "fetch", "replace"}) ~>
        (schedPc = "exited" \/ crashed))
  /\ [][schedPc = "exited" =>
          (schedPc' = "exited" /\ nCycles' = nCycles /\ nQueries' = nQueries)]_vars

\* refreshTags has exited on Stop after the startup cycle alone: a query
\* after this would still be counted
C5_Witness ==
  /\ schedPc = "exited" /\ stopCalled
  /\ nCycles = 1 /\ nQueries = 1

(***************************************************************************)
(* C6.  With a negative refresh interval and a tag key configured no       *)
(* refresh goroutine is started and at most one fetch cycle is ever begun: *)
(* exactly one once Start has returned without error.                      *)
(***************************************************************************)
C6_NegativeIntervalOneFetch ==
  (RefreshInterval < 0 /\ Len(EC2InstanceTagKeys) > 0) =>
    /\ schedPc = "none"
    /\ nCycles <= 1
    /\ (startResult = "ok" => nCycles = 1)

\* Start succeeded with a negative interval, and an Apply call went through a
\* full batch
C6_Witness ==
  /\ RefreshInterval < 0 /\ Len(EC2InstanceTagKeys) > 0
  /\ startResult = "ok"
  /\ pc = "apply" /\ Len(metrics) = MaxBatch /\ idx > Len(metrics)

(***************************************************************************)
(* C7.  With refreshing on, the cache holds the result of the latest       *)
(* successful fetch cycle whenever refreshTags is not between a fetch and  *)
(* its store, an Apply call reads that; each successful refresh fetch is   *)
(* stored, and while done is open a tick that is due is taken up by a      *)
(* fetch.                                                                  *)
(***************************************************************************)
C7_CacheFollowsCycles ==
  /\ []((startFetch = "ok" /\ schedPc # "replace") => ec2TagsCache = MkMap(lastOk))
  /\ [][(ApplyReadStep /\ schedPc # "replace") => snap' = MkMap(lastOk)]_vars
  /\ (schedPc = "replace" ~> ((schedPc = "select" /\ ec2TagsCache = MkMap(lastOk)) \/ crashed))
  /\ ((schedPc = "select" /\ ticker = "pending") ~>
        (schedPc = "fetch" \/ done = "closed" \/ crashed))
  /\ ((schedPc = "select" /\ ticker = "armed") ~>
        (ticker = "pending" \/ done = "closed" \/ crashed))

\* an Apply call has read the tags of a refresh, not those of the startup
\* fetch, with done open
C7_Witness ==
  /\ refreshed /\ snapRefreshed /\ ~lastErr
  /\ pc = "apply" /\ idx > Len(metrics) /\ Len(metrics) >= 1
  /\ schedPc = "select"
  /\ snap = MkMap(lastOk)
  /\ startTags # snap
  /\ done = "open"

(***************************************************************************)
(* C8.  With no tag key configured there is never a fetch cycle, a tag     *)
(* query, a tag-service client, a done channel or a refresh goroutine,     *)
(* whatever the interval; the cache stays nil, so Stop finds nothing to    *)
(* close, and Apply adds the configured metadata tags and nothing else.    *)
(***************************************************************************)
C8_NoTagKeysNoFetch ==
  Len(EC2InstanceTagKeys) = 0 =>
    /\ nCycles = 0 /\ nQueries = 0
    /\ ec2Client = "none"
    /\ tagFilters = <<>>
    /\ done = "nil"
    /\ schedPc = "none" /\ ticker = "none"
    /\ ec2TagsCache = NilMap
    /\ \A i \in Stamped : metrics[i] = StampOf(orig[i], EmptyMap)

\* no tag key and a positive interval: Start succeeded and an Apply call
\* stamped a metric that came with tags
C8_Witness ==
  /\ Len(EC2InstanceTagKeys) = 0 /\ RefreshInterval > 0
  /\ startResult = "ok"
  /\ pc = "apply" /\ idx > Len(metrics) /\ Len(metrics) >= 1
  /\ orig[1] # EmptyMap
  /\ MdNames # {}

(***************************************************************************)
(* C9.  When the metadata service is unavailable or its document call      *)
(* fails, Start returns an error and has done nothing else: no document    *)
(* request in the unavailable case, and in both cases no tag-service       *)
(* client, no fetch cycle, no tag query, no refresh goroutine, and the     *)
(* identity fields and the cache as constructed.                           *)
(***************************************************************************)
C9_IdentityFailureStopsStart ==
  /\ (mdResult = "unavailable" => docCalls = 0)
  /\ (mdResult \in {"unavailable", "docErr"} =>
        /\ startResult = "err" /\ pc = "idle"
        /\ availCalls = 1
        /\ ec2Client = "none"
        /\ nCycles = 0 /\ nQueries = 0
        /\ schedPc = "none"
        /\ instanceId = "" /\ instanceType = "" /\ imageId = "" /\ region = ""
        /\ ec2TagsCache = NilMap)

\* the document call failed for a Tagger with tag keys and a positive
\* interval
C9_Witness ==
  /\ mdResult = "docErr" /\ docCalls = 1
  /\ startResult = "err"
  /\ Len(EC2InstanceTagKeys) > 0 /\ RefreshInterval > 0

(***************************************************************************)
(* C10.  When the startup fetch returns an error, Start returns an error,  *)
(* the cache stays nil, no refresh goroutine is started, and from then on  *)
(* no fetch cycle is begun and no tag query is made.                       *)
(***************************************************************************)
C10_StartFetchErrorIsFatal ==
  /\ [](startFetch = "err" =>
          /\ startResult = "err" /\ pc = "idle"
          /\ ec2TagsCache = NilMap
          /\ schedPc = "none" /\ ticker = "none")
  /\ [][startFetch = "err" => (nCycles' = nCycles /\ nQueries' = nQueries)]_vars

\* the startup fetch failed on its second page, with a positive interval,
\* and Stop was called afterwards
C10_Witness ==
  /\ startFetch = "err"
  /\ nQueries = 2
  /\ RefreshInterval > 0
  /\ stopCalled

(***************************************************************************)
(* C11.  Start builds no key filter when the configured list of tag keys  *)
(* is exactly <<"*">>, and for every other list with a key in it one key  *)
(* filter whose values are the configured keys in their order, with        *)
(* "AutoScalingGroupName" replaced by "aws:autoscaling:groupName" (so      *)
(* <<"*", "Name">> gets a key filter of "*" and "Name"); the filters are   *)
(* not changed afterwards, and every query carries these key filters.      *)
(***************************************************************************)
C11_KeyFilterFollowsConfig ==
  /\ [][BuildStep =>
          KeyFilters(tagFilters') =
            IF EC2InstanceTagKeys = <<"*">>
              THEN <<>>
              ELSE << [Name |-> "key",
                       Values |->
                         [i \in 1 .. Len(EC2InstanceTagKeys) |->
                            IF EC2InstanceTagKeys[i] = "AutoScalingGroupName"
                              THEN "aws:autoscaling:groupName"
                              ELSE EC2InstanceTagKeys[i]]] >>]_vars
  /\ [][tagFilters # <<>> => KeyFilters(tagFilters') = KeyFilters(tagFilters)]_vars
  /\ [](qFilters # <<>> => KeyFilters(qFilters) = KeyFilters(tagFilters))

\* a follow-up query of a refresh went out with a key filter of "*" and the
\* translated name of the group tag
C11_Witness ==
  /\ schedPc = "replace" /\ Len(rLog) = 2
  /\ KeyFilters(qFilters) =
       << [Name |-> "key", Values |-> <<"*", "aws:autoscaling:groupName">>] >>

(***************************************************************************)
(* C12 as stated.  Whenever a fetch cycle that has returned received a tag *)
(* keyed "aws:autoscaling:groupName", its result holds the value of that   *)
(* tag under "AutoScalingGroupName".                                       *)
(***************************************************************************)
C12_AsStated ==
  /\ (pc = "startStore" => GroupTagKept(sLog, sTags))
  /\ (schedPc = "replace" => GroupTagKept(rLog, rTags))

(***************************************************************************)
(* What the code does in the case of C12.  No mapping the Tagger holds     *)
(* (the cache, the tags of a fetch                                         *)
(* cycle, what Apply read) and no metric Apply stamped that came without   *)
(* tags has the key "aws:autoscaling:groupName"; the result of a fetch     *)
(* cycle holds under "AutoScalingGroupName" the value of the last tag the  *)
(* cycle received under either of the two names (so the value of the tag   *)
(* keyed "aws:autoscaling:groupName" unless a tag keyed                    *)
(* "AutoScalingGroupName" came after it), and has no such key when no such *)
(* tag came; Start and the refresh store that result, and Apply stamps the *)
(* value it read.                                                          *)
(***************************************************************************)
C12_GroupTagRenamed ==
  /\ [](/\ ec2InstanceTagKeyASG \notin DOMAIN ec2TagsCache.kv
        /\ ec2InstanceTagKeyASG \notin DOMAIN sTags
        /\ ec2InstanceTagKeyASG \notin DOMAIN rTags
        /\ ec2InstanceTagKeyASG \notin DOMAIN snap.kv
        /\ \A i \in Stamped :
             /\ orig[i] = EmptyMap => ec2InstanceTagKeyASG \notin DOMAIN metrics[i]
             /\ cwDimensionASG \in DOMAIN snap.kv =>
                  metrics[i][cwDimensionASG] = snap.kv[cwDimensionASG])
  /\ [](pc = "startStore" => GroupTagLast(sLog, sTags))
  /\ [](schedPc = "replace" => GroupTagLast(rLog, rTags))
  /\ [][(pc = "startStore" /\ pc' # "startStore") => ec2TagsCache' = MkMap(sTags)]_vars
  /\ [][(schedPc = "replace" /\ schedPc' # "replace") => ec2TagsCache' = MkMap(rTags)]_vars

\* Apply stamped a metric with the group tag a refresh had stored, fetched
\* with a key filter on "aws:autoscaling:groupName"
C12_Witness ==
  /\ pc = "apply" /\ idx > Len(metrics) /\ Len(metrics) >= 1
  /\ snapRefreshed
  /\ KeyFilters(tagFilters) =
       << [Name |-> "key", Values |-> <<"aws:autoscaling:groupName">>] >>
  /\ metrics[1] = [k \in {"AutoScalingGroupName"} |-> "g1"]

(***************************************************************************)
(* C13.  Every DescribeTags call (of the startup cycle, of a refresh       *)
(* cycle, first or follow-up) carries the filters Start built, which are   *)
(* never changed afterwards and begin with resource-type = "instance" and  *)
(* resource-id = the instance id of the identity document.                 *)
(***************************************************************************)
C13_SameFiltersEveryQuery ==
  /\ [](qFilters \in {<<>>, tagFilters})
  /\ []((nQueries > 0 \/ sLog # <<>> \/ rLog # <<>>) =>
          (qFilters = tagFilters /\ tagFilters # <<>>))
  /\ [](tagFilters # <<>> =>
          /\ Len(tagFilters) >= 2
          /\ tagFilters[1] = [Name |-> "resource-type", Values |-> <<"instance">>]
          /\ tagFilters[2] = [Name |-> "resource-id", Values |-> <<instanceId>>]
          /\ instanceId = Doc.InstanceID
          /\ mdResult = "ok")
  /\ [][tagFilters # <<>> => tagFilters' = tagFilters]_vars

\* after the startup cycle, a refresh cycle has made a first and a follow-up
\* query, with a key filter
C13_Witness ==
  /\ startFetch = "ok"
  /\ schedPc = "replace" /\ Len(rLog) = 2
  /\ Len(tagFilters) = 3 /\ qFilters = tagFilters

(***************************************************************************)
(* C14 as stated.  Every call of hostJitter with a maximum D >= 0 returns  *)
(* a delay j with 0 <= j < D, and two calls with the same D return the     *)
(* same j.                                                                 *)
(***************************************************************************)
C14_AsStated ==
  /\ \A i \in 1 .. Len(jitterLog) :
       jitterLog[i].max >= 0 =>
         /\ ~jitterLog[i].panic
         /\ 0 <= jitterLog[i].j /\ jitterLog[i].j < jitterLog[i].max
  /\ \A i, k \in 1 .. Len(jitterLog) :
       (jitterLog[i].max >= 0 /\ jitterLog[i].max = jitterLog[k].max) =>
         jitterLog[i].j = jitterLog[k].j

(***************************************************************************)
(* C14.  On a host of a given name, every call of hostJitter with a        *)
(* maximum D > 0 returns a delay j with 0 <= j < D, and two calls with the *)
(* same D > 0 return the same j; a call with D = 0 returns no delay: the   *)
(* division by zero ends the process.                                      *)
(***************************************************************************)
C14_JitterInRange ==
  /\ \A i \in 1 .. Len(jitterLog) :
       /\ jitterLog[i].max > 0 =>
            /\ ~jitterLog[i].panic
            /\ 0 <= jitterLog[i].j /\ jitterLog[i].j < jitterLog[i].max
       /\ jitterLog[i].max = 0 => (jitterLog[i].panic /\ crashed)
  /\ \A i, k \in 1 .. Len(jitterLog) :
       (jitterLog[i].max > 0 /\ jitterLog[i].max = jitterLog[k].max) =>
         jitterLog[i].j = jitterLog[k].j

\* two calls with the largest maximum, on a host the hash of whose name has
\* its top bit set, gave a delay that is not zero
C14_Witness ==
  /\ Len(jitterLog) = 2
  /\ jitterLog[1].max = MaxDuration /\ jitterLog[2].max = MaxDuration
  /\ jitterLog[1].j > 0
  /\ Sum64(hostname)[8] >= 128

(***************************************************************************)
(* C15.  Start is synchronous and in order: the tag-service client and the *)
(* filters exist only after identity resolution succeeded, and are built   *)
(* for the region and the instance id of the identity document; once Start *)
(* has returned without error with a tag key configured, the startup fetch *)
(* has completed and the cache holds its result, put there by the step in  *)
(* which Start returns; refreshTags is launched by that step and no        *)
(* earlier, so while Start runs there is no goroutine, and no Apply call   *)
(* runs before Start has returned without error.                           *)
(***************************************************************************)
C15_StartInOrder ==
  /\ [](ec2Client # "none" =>
          /\ mdResult = "ok"
          /\ ec2Client = Doc.Region /\ region = Doc.Region
          /\ tagFilters # <<>>
          /\ tagFilters[2].Values = <<Doc.InstanceID>>)
  /\ []((startResult = "ok" /\ Len(EC2InstanceTagKeys) > 0) =>
          /\ startFetch = "ok"
          /\ startTags # NilMap
          /\ ec2TagsCache # NilMap)
  /\ [][(pc = "startStore" /\ pc' # "startStore") =>
          /\ ec2TagsCache' = MkMap(sTags)
          /\ startResult' = "ok" /\ pc' = "idle"]_vars
  /\ [](pc \in {"new", "startFetch", "startStore"} =>
          (schedPc = "none" /\ startResult = "none"))
  /\ [][(schedPc = "none" /\ schedPc' # "none") =>
          (pc = "startStore" /\ ec2TagsCache' = MkMap(sTags) /\ schedPc' = "sleep")]_vars
  /\ [](pc = "apply" => startResult = "ok")

\* Start has returned after a startup fetch of two pages, with refreshTags
\* launched and not yet run
C15_Witness ==
  /\ startResult = "ok" /\ pc = "idle"
  /\ nQueries = 2 /\ nCycles = 1
  /\ schedPc = "sleep"
  /\ ec2TagsCache = startTags /\ startTags # NilMap
  /\ ec2Client = Doc.Region

(***************************************************************************)
(* C16.  With a tag key configured and identity resolution succeeding,     *)
(* Start replaces a refresh interval of zero by 180 seconds and leaves any *)
(* other interval as configured; no later step changes the interval; and   *)
(* refreshTags, launched when Start returns without error with an interval *)
(* above zero, takes its jitter from that interval.                        *)
(***************************************************************************)
C16_ZeroIntervalDefaults ==
  /\ [][(pc = "new" /\ pc' # "new" /\ Len(EC2InstanceTagKeys) > 0 /\ mdResult' = "ok") =>
          RefreshInterval' = IF RefreshInterval = 0 THEN 180 ELSE RefreshInterval]_vars
  /\ [][pc # "new" => RefreshInterval' = RefreshInterval]_vars
  /\ [][(pc = "startStore" /\ pc' # "startStore" /\ RefreshInterval > 0) =>
          schedPc' = "sleep"]_vars
  /\ [](schedPc # "none" => RefreshInterval > 0)
  /\ [](\A i \in 1 .. Len(jitterLog) : jitterLog[i].max = RefreshInterval)
  /\ []((pc # "new" /\ Len(EC2InstanceTagKeys) > 0 /\ mdResult = "ok") =>
          RefreshInterval # 0)

\* refreshTags runs with the default interval
C16_Witness ==
  /\ RefreshInterval = 180
  /\ schedPc = "select" /\ ticker = "pending"
  /\ jitterLog # <<>> /\ jitterLog[1].max = 180

(***************************************************************************)
(* C17 as stated.  Once the done channel is closed, refreshTags begins no  *)
(* fetch cycle.                                                            *)
(***************************************************************************)
C17_AsStated == [][done = "closed" => ~RefreshBegins]_vars

(***************************************************************************)
(* What the code does in the case of C17.  Once the done channel is        *)
(* closed, refreshTags begins a fetch cycle                                *)
(* only as the choice of its select when a tick is pending at that moment  *)
(* (the select takes either of two ready cases); a select with no tick     *)
(* pending can only return, and after the return the goroutine takes no    *)
(* step.                                                                   *)
(***************************************************************************)
C17_StopAndPendingTick ==
  /\ [][(done = "closed" /\ RefreshBegins) =>
          (schedPc = "select" /\ ticker = "pending")]_vars
  /\ [][(done = "closed" /\ schedPc = "select" /\ ticker # "pending"
          /\ schedPc' # schedPc) => schedPc' = "exited"]_vars
  /\ [][(done = "closed" /\ schedPc = "select" /\ ticker = "pending"
          /\ schedPc' # schedPc) => schedPc' \in {"exited", "fetch"}]_vars
  /\ [][schedPc = "exited" => <<schedPc, schedLocals, ticker>>' = <<schedPc, schedLocals, ticker>>]_vars

\* Stop has closed done while refreshTags is at its select with a tick
\* pending
C17_Witness ==
  /\ done = "closed" /\ stopCalled
  /\ schedPc = "select" /\ ticker = "pending"

(***************************************************************************)
(* C18.  At most one fetch cycle is in flight: there is no goroutine while *)
(* the startup cycle runs, and refreshTags takes a tick, and so begins a   *)
(* cycle, only at its select, with the cycle before returned and stored;   *)
(* a tick that comes during a fetch waits in the channel.                  *)
(***************************************************************************)
C18_OneCycleInFlight ==
  /\ [](CyclesInFlight <= 1)
  /\ [](pc \in {"startFetch", "startStore"} => schedPc = "none")
  /\ [][TickTaken =>
          /\ schedPc = "select" /\ schedPc' = "fetch"
          /\ rInput = NoToken /\ rTags = EmptyMap
          /\ pc \notin {"startFetch", "startStore"}]_vars
  /\ [][RefreshBegins => TickTaken]_vars
  /\ [][(schedPc \in {"fetch", "replace"} /\ ticker = "pending") =>
          ticker' = "pending"]_vars

\* a refresh fetch that has received a page is still running when the next
\* tick is in the channel
C18_Witness ==
  /\ schedPc = "fetch" /\ rInput # NoToken
  /\ ticker = "pending"
  /\ refreshed

(***************************************************************************)
(* C19.  A fetch cycle follows the pagination protocol: its first call     *)
(* carries no token, each later call carries the token the call before     *)
(* returned, the cycle goes on while a token is returned and returns at    *)
(* the first call that returns none, after as many calls as the listing    *)
(* has pages; what it has gathered is the union of the tags received, the  *)
(* later of two tags under one key winning.                                *)
(***************************************************************************)
C19_PaginationProtocol ==
  /\ (pc = "startFetch" => Paginated(sLog, sInput, sTags, FALSE))
  /\ (pc = "startStore" => Paginated(sLog, NoToken, sTags, TRUE))
  /\ (schedPc = "fetch" => Paginated(rLog, rInput, rTags, FALSE))
  /\ (schedPc = "replace" => Paginated(rLog, NoToken, rTags, TRUE))

\* a refresh cycle has returned after two calls whose pages differ
C19_Witness ==
  /\ schedPc = "replace"
  /\ Len(rLog) = 2 /\ rLog[1].got = 1
  /\ rLog[1].Tags # rLog[2].Tags
  /\ "Name" \in DOMAIN rTags /\ rTags["Name"] = rLog[2].Tags[1].Value

(***************************************************************************)
(* C20.  When a call of a fetch cycle fails, the cycle fails whatever it   *)
(* had received: the closure returns no tags and what it had gathered is   *)
(* dropped; at startup Start returns an error with the cache nil and no    *)
(* goroutine; in a refresh the cache and the last good result stay as they *)
(* were.  The cache changes only in the steps that store the result of a   *)
(* cycle whose last call returned a page.                                  *)
(***************************************************************************)
C20_FailedPageFailsCycle ==
  /\ [][StartQueryFails =>
          /\ qFailedAfter' = Len(sLog)
          /\ startResult' = "err" /\ startFetch' = "err" /\ pc' = "idle"
          /\ ec2TagsCache' = NilMap
          /\ sTags' = EmptyMap /\ sLog' = <<>>
          /\ schedPc' = "none"]_vars
  /\ [][RefreshQueryFails =>
          /\ qFailedAfter' = Len(rLog)
          /\ schedPc' = "select" /\ lastErr'
          /\ ec2TagsCache' = ec2TagsCache /\ lastOk' = lastOk
          /\ rTags' = EmptyMap /\ rLog' = <<>>]_vars
  /\ []((pc = "startStore" \/ schedPc = "replace") => qFailedAfter = -1)
  /\ [][ec2TagsCache' # ec2TagsCache =>
          \/ pc = "startStore" /\ ec2TagsCache' = MkMap(sTags)
          \/ schedPc = "replace" /\ ec2TagsCache' = MkMap(rTags)]_vars
  /\ [](qFailedAfter >= 0 =>
          \/ startFetch = "err" /\ ec2TagsCache = NilMap
          \/ lastErr /\ ec2TagsCache = MkMap(lastOk))

\* a refresh cycle failed on its second call, and an Apply call has read
\* the cache since: the tags of the refresh before
C20_Witness ==
  /\ qFailedAfter = 1 /\ lastErr /\ refreshed
  /\ pc = "apply" /\ idx > Len(metrics) /\ Len(metrics) >= 1
  /\ snap = MkMap(lastOk)
  /\ schedPc = "select"

\* the pipeline thread takes a step of an Apply call
ApplyStep ==
  \/ ApplyReadStep
  \/ pc = "apply" /\ (applyLocals' # applyLocals \/ pc' # pc \/ crashed' # crashed)

\* the pipeline thread takes the step that is a call of Stop
StopStep == ~stopCalled /\ stopCalled'

(***************************************************************************)
(* C21.  Once Start has returned, the cache changes only in the step of    *)
(* refreshTags that stores the tags a refresh fetch returned; a step of    *)
(* Apply and the call of Stop leave the cache and the identity fields as   *)
(* they are, and a step of Apply makes no tag query, begins no fetch cycle *)
(* and moves no fetch cycle on.                                            *)
(***************************************************************************)
C21_OnlyRefreshWritesCache ==
  /\ [][(startResult # "none" /\ ec2TagsCache' # ec2TagsCache) =>
          /\ schedPc = "replace" /\ schedPc' = "select"
          /\ ~lastErr
          /\ ec2TagsCache' = MkMap(rTags)]_vars
  /\ [][(ApplyStep \/ StopStep) =>
          (ec2TagsCache' = ec2TagsCache /\ identity' = identity)]_vars
  /\ [][ApplyStep =>
          /\ nQueries' = nQueries /\ nCycles' = nCycles
          /\ schedPc' = schedPc /\ schedLocals' = schedLocals
          /\ qFilters' = qFilters]_vars

\* an Apply call has stamped the metrics of its batch, with the metadata
\* tags, from the tags of a refresh, and the refresh after that has stored
\* other tags since the call read the cache
C21_Witness ==
  /\ pc = "apply" /\ idx > Len(metrics) /\ Len(metrics) >= 1
  /\ snapRefreshed /\ snap # ec2TagsCache
  /\ MdNames # {}

(***************************************************************************)
(* C22 as stated.  Once Start has returned, there is a done channel        *)
(* exactly when Start launched refreshTags.                                *)
(***************************************************************************)
C22_AsStated == startResult # "none" => (done # "nil" <=> schedPc # "none")

(***************************************************************************)
(* C22.  Once Start has returned, there is a done channel exactly when the *)
(* identity was resolved and a tag key is configured; refreshTags is       *)
(* launched only with a done channel: exactly when Start returned no error *)
(* with a done channel and a positive interval.  With a negative interval, *)
(* and after a startup fetch that failed, there is a done channel and no   *)
(* refreshTags.                                                            *)
(***************************************************************************)
C22_DoneFollowsTagKeys ==
  /\ (startResult # "none" =>
        (done # "nil" <=> (mdResult = "ok" /\ Len(EC2InstanceTagKeys) > 0)))
  /\ (schedPc # "none" => done # "nil")
  /\ (startResult # "none" =>
        (schedPc # "none" <=>
           (startResult = "ok" /\ done # "nil" /\ RefreshInterval > 0)))

\* Start has returned without error with a negative interval: a done
\* channel, open, and no refreshTags; an Apply call has been through a metric
C22_Witness ==
  /\ startResult = "ok" /\ RefreshInterval < 0
  /\ done = "open" /\ schedPc = "none"
  /\ pc = "apply" /\ idx > Len(metrics) /\ Len(metrics) >= 1

\* the metadata attribute names Apply has a case for
SupportedNames == {"InstanceId", "ImageId", "InstanceType"}

\* the places of the configured names Apply has no case for
UnsupportedAt ==
  { i \in 1 .. Len(EC2MetadataTags) : EC2MetadataTags[i] \notin SupportedNames }

\* the configured names before the first that Apply has no case for
NamesBeforeUnsupported ==
  { EC2MetadataTags[i] : i \in { j \in 1 .. Len(EC2MetadataTags) :
                                   \A u \in UnsupportedAt : j < u } }

(***************************************************************************)
(* C23.  Start does not look at the metadata attribute names: it returns   *)
(* an error only when the identity or the startup fetch failed, and the    *)
(* process is never ended outside Apply's loop.  With a name Apply has no  *)
(* case for, a turn of Apply's loop ends the process on the first metric   *)
(* of the batch, which has then got the cached tags and the attributes     *)
(* named before that name; no thread takes a step afterwards.  An Apply    *)
(* call on an empty batch returns.  With supported names only the process  *)
(* is never ended.                                                         *)
(***************************************************************************)
C23_UnsupportedNameIsFatalInApply ==
  /\ [](startResult = "err" =>
          (mdResult \in {"unavailable", "docErr"} \/ startFetch = "err"))
  /\ [](crashed =>
          /\ UnsupportedAt # {}
          /\ pc = "apply" /\ idx = 1 /\ Len(metrics) >= 1
          /\ DOMAIN metrics[1] =
               (DOMAIN orig[1]) \cup (DOMAIN snap.kv) \cup NamesBeforeUnsupported)
  /\ []((UnsupportedAt # {} /\ pc = "apply" /\ Len(metrics) >= 1) => idx = 1)
  /\ [][(UnsupportedAt # {} /\ pc = "apply" /\ idx <= Len(metrics) /\ ApplyStep) =>
          crashed']_vars
  /\ [][(pc = "apply" /\ metrics = <<>> /\ ApplyStep) =>
          (pc' = "idle" /\ ~crashed')]_vars
  /\ [][crashed => vars' = vars]_vars

\* Start returned no error with a name Apply has no case for, a refresh has
\* stored tags, and an Apply call on two metrics ended the process on the
\* first, which got the tags and the attribute named first
C23_Witness ==
  /\ startResult = "ok" /\ EC2MetadataTags = <<"ImageId", "Bogus">>
  /\ crashed /\ idx = 1 /\ Len(metrics) = 2
  /\ snapRefreshed
  /\ metrics[1]["ImageId"] = Doc.ImageID
  /\ metrics[2] = orig[2]

(***************************************************************************)
(* C24.  hostJitter is called only by refreshTags as it starts, at most    *)
(* once, with the interval of the Tagger, which is then positive (a        *)
(* configured 0 has become the default): no call has a maximum <= 0, none  *)
(* panics, and there is no call without a refreshTags goroutine.           *)
(***************************************************************************)
C24_JitterMaxPositive ==
  /\ [](\A i \in 1 .. Len(jitterLog) :
          /\ jitterLog[i].max > 0
          /\ ~jitterLog[i].panic
          /\ jitterLog[i].max = RefreshInterval)
  /\ [](Len(jitterLog) <= 1)
  /\ [](jitterLog # <<>> <=> schedPc \in {"select", "fetch", "replace", "exited"})
  /\ [][jitterLog' # jitterLog =>
          /\ schedPc = "sleep" /\ schedPc' = "select"
          /\ RefreshInterval > 0
          /\ jitterLog' = Append(jitterLog, jitterLog'[Len(jitterLog')])]_vars
  /\ [](schedPc # "none" => RefreshInterval > 0)

\* refreshTags has called hostJitter with the configured interval of 5 s and
\* is in a fetch; Stop was not called
C24_Witness ==
  /\ Len(jitterLog) = 1 /\ jitterLog[1].max = 5
  /\ jitterLog[1].j \in 0 .. 4
  /\ schedPc = "fetch" /\ ~stopCalled

\* the interval timer of refreshTags is created
TickerCreated == ticker = "none" /\ ticker' # "none"

(***************************************************************************)
(* C25.  The first fetch of refreshTags follows its jitter sleep and one   *)
(* tick: the ticker is created as the sleep ends and holds no tick then,   *)
(* a fetch cycle begins only in the select, by taking a tick, and no       *)
(* fetch cycle other than the one of Start (the first that nCycles        *)
(* counts) has begun, and no query other than Start's is made, while       *)
(* refreshTags sleeps or waits for its first tick.                         *)
(***************************************************************************)
C25_FirstFetchAfterSleepAndTick ==
  /\ [](schedPc = "sleep" =>
          /\ ticker = "none" /\ jitterLog = <<>>
          /\ nCycles = 1 /\ rTags = EmptyMap /\ rInput = NoToken)
  /\ [][TickerCreated =>
          /\ schedPc = "sleep" /\ schedPc' = "select"
          /\ jitterLog' # <<>>
          /\ ticker' = "armed"]_vars
  /\ [][RefreshBegins =>
          /\ schedPc = "select" /\ TickTaken
          /\ jitterLog # <<>>
          /\ nCycles' > 1]_vars
  /\ [](nCycles <= 1 =>
          /\ schedPc \in {"none", "sleep", "select", "exited"}
          /\ rTags = EmptyMap /\ rInput = NoToken
          /\ ~lastErr /\ ~refreshed)
  /\ [][(nCycles <= 1 /\ nCycles' <= 1 /\ nQueries' # nQueries) =>
          pc = "startFetch"]_vars

\* the first fetch cycle of refreshTags has just begun, on the tick that
\* followed the sleep; the cache is still the one Start stored
C25_Witness ==
  /\ schedPc = "fetch" /\ nCycles = 2 /\ ticker = "armed"
  /\ rInput = NoToken /\ rTags = EmptyMap
  /\ Len(jitterLog) = 1 /\ ~refreshed /\ ~lastErr
  /\ ~stopCalled

(***************************************************************************)
(* C26.  With Stop called at most once, the call never panics, wherever    *)
(* it falls: it closes t.done when there is one, which is then open, and   *)
(* leaves a nil t.done nil.  t.done only ever changes from nil to open in  *)
(* Start and from open to closed in Stop, so it is closed at most once.    *)
(***************************************************************************)
C26_StopOnceIsSafe ==
  /\ [][StopStep =>
          /\ ~crashed'
          /\ done # "closed"
          /\ done' = IF done = "nil" THEN "nil" ELSE "closed"]_vars
  /\ [][done' # done =>
          \/ done = "nil" /\ done' = "open" /\ pc = "new" /\ pc' # "new"
          \/ done = "open" /\ done' = "closed" /\ StopStep]_vars
  /\ [][done = "closed" => done' = "closed"]_vars
  /\ [](done = "closed" => stopCalled)

\* Stop was called after a Start that failed in its startup fetch: t.done
\* had been made, no refreshTags was started, and Stop closed it
C26_Witness ==
  /\ stopCalled /\ ~crashed
  /\ startResult = "err" /\ startFetch = "err"
  /\ done = "closed" /\ schedPc = "none"

\* the other places of the one Stop
C26_StopBeforeStart == stopCalled /\ pc = "new" /\ done = "nil"

C26_StopAfterIdentityError ==
  stopCalled /\ startResult = "err" /\ mdResult # "ok" /\ pc = "idle" /\ ~crashed

C26_StopWithoutTagKeys ==
  stopCalled /\ startResult = "ok" /\ EC2InstanceTagKeys = <<>> /\ done = "nil" /\ ~crashed

C26_StopWhileRefreshing ==
  stopCalled /\ startResult = "ok" /\ done = "closed" /\ schedPc = "fetch"

C26_StopRefreshDisabled ==
  stopCalled /\ startResult = "ok" /\ RefreshInterval < 0 /\ done = "closed"

(***************************************************************************)
(* C27.  One Apply call stamps all its metrics from one snapshot: the map  *)
(* read as the call begins is the cache of that moment and stays the       *)
(* call's map until it returns, and every metric stamped so far carries    *)
(* each tag of that map (under a key that is not a metadata name) with     *)
(* the map's value, and no key from elsewhere, whatever the cache has      *)
(* become meanwhile.                                                       *)
(***************************************************************************)
C27_OneSnapshotPerApply ==
  /\ [][ApplyReadStep => snap' = ec2TagsCache]_vars
  /\ [][(pc = "apply" /\ pc' = "apply") => (snap' = snap /\ orig' = orig)]_vars
  /\ [](\A i \in Stamped :
          /\ DOMAIN metrics[i] = (DOMAIN orig[i]) \cup (DOMAIN snap.kv) \cup MdNames
          /\ \A k \in (DOMAIN snap.kv) \ MdNames : metrics[i][k] = snap.kv[k])
  /\ [](\A i, j \in Stamped : orig[i] = orig[j] => metrics[i] = metrics[j])

\* a batch of two metrics is stamped; refreshTags replaced the cache during
\* the call, by a map with another Name, and both metrics carry the Name of
\* the map the call read
C27_Witness ==
  /\ pc = "apply" /\ Len(metrics) = 2 /\ idx > Len(metrics)
  /\ refreshed /\ ~snapRefreshed
  /\ "Name" \in DOMAIN snap.kv /\ "Name" \in DOMAIN ec2TagsCache.kv
  /\ snap.kv["Name"] # ec2TagsCache.kv["Name"]
  /\ metrics[1]["Name"] = snap.kv["Name"]
  /\ metrics[2]["Name"] = snap.kv["Name"]

(***************************************************************************)
(* C28.  Apply settles a key that occurs twice by the order of its         *)
(* AddTag calls, the cached tags first and the metadata second: on a       *)
(* stamped metric a key that is a configured metadata name has the value   *)
(* of the identity document, any other key of the cached tags has the      *)
(* cached value, and any other key has the value the metric came with;     *)
(* the metric has no further key.                                          *)
(***************************************************************************)
C28_LaterTagWins ==
  \A i \in Stamped :
    /\ metrics[i] = StampOf(orig[i], snap.kv)
    /\ \A k \in MdNames : metrics[i][k] = DocField(k)
    /\ \A k \in (DOMAIN snap.kv) \ MdNames : metrics[i][k] = snap.kv[k]
    /\ \A k \in (DOMAIN orig[i]) \ ((DOMAIN snap.kv) \cup MdNames) :
         metrics[i][k] = orig[i][k]

\* a metric that came with Name, ImageId and host is stamped from a cache
\* with Name and InstanceId, all three metadata names configured: InstanceId
\* and ImageId are the document's, Name is the cache's, host is kept
C28_Witness ==
  /\ pc = "apply" /\ idx > Len(metrics) /\ Len(metrics) >= 1
  /\ DOMAIN orig[1] = {"Name", "ImageId", "host"}
  /\ {"Name", "InstanceId"} \subseteq DOMAIN snap.kv
  /\ MdNames = {"InstanceId", "ImageId", "InstanceType"}
  /\ snap.kv["InstanceId"] # Doc.InstanceID /\ metrics[1]["InstanceId"] = Doc.InstanceID
  /\ orig[1]["ImageId"] # Doc.ImageID /\ metrics[1]["ImageId"] = Doc.ImageID
  /\ orig[1]["Name"] # snap.kv["Name"] /\ metrics[1]["Name"] = snap.kv["Name"]
  /\ metrics[1]["host"] = orig[1]["host"]

====
